---- MODULE Spec2Model ----
(***************************************************************************)
(* Profile-based configuration of atlas-cli-core (package config).         *)
(*                                                                         *)
(* The model follows src/unnamed/part_000 (the Profile type and its        *)
(* methods) and src/config/config.go (constants, IsTrue, List, Exists).    *)
(* The settings store (viper) is modelled as its layers: the override      *)
(* layer written by viper.Set, the automatic environment layer, and the    *)
(* config layer read from the document on disk.  Strings are sequences of  *)
(* one-character strings, so that strings.Contains, strings.ToLower and    *)
(* IsTrue are computed and not assumed.                                    *)
(***************************************************************************)
EXTENDS Integers, Sequences, FiniteSets, TLC

VARIABLES
    name,       \* Profile.name
    initErr,    \* Profile.err # nil (CLIConfigHome failed in newProfile)
    override,   \* viper's override layer (viper.Set)
    config,     \* viper's config layer (viper.ReadInConfig)
    env,        \* environment: prefix-bound variables by setting key, flags by name
    autoEnv,    \* viper.AutomaticEnv() has been applied
    dirExists,  \* the configuration directory exists on disk
    file,       \* the document at Profile.Filename(), or NoFile
    writes,     \* number of Set / SetGlobal calls so far
    lastGlobal, \* history: key -> value of the most recent SetGlobal on it
    used,       \* history: Load, Save, Delete or Rename has been invoked
    ret         \* the last call: operation, arguments, result

vars == <<name, initErr, override, config, env, autoEnv, dirExists, file, writes, lastGlobal,
         used, ret>>

(***************************************************************************)
(* Bounds                                                                  *)
(***************************************************************************)
MaxNameLen == 2
MaxWrites == 2
MaxCredWrites == 3

(***************************************************************************)
(* Strings                                                                 *)
(***************************************************************************)
UpperCase == <<"A", "E", "N", "O", "R", "S", "T", "U", "Y">>
LowerCase == <<"a", "e", "n", "o", "r", "s", "t", "u", "y">>

ToLowerChar(c) == IF \E i \in 1..Len(UpperCase) : UpperCase[i] = c
                  THEN LowerCase[CHOOSE i \in 1..Len(UpperCase) : UpperCase[i] = c]
                  ELSE c

\* strings.ToLower
ToLower(s) == [i \in 1..Len(s) |-> ToLowerChar(s[i])]

\* strings.Contains(s, ".")
ContainsDot(s) == \E i \in 1..Len(s) : s[i] = "."

RECURSIVE SeqsUpTo(_, _)
SeqsUpTo(S, n) == IF n = 0 THEN {<<>>}
                  ELSE LET R == SeqsUpTo(S, n - 1)
                       IN  R \cup {Append(r, c) : r \in {x \in R : Len(x) = n - 1}, c \in S}

(***************************************************************************)
(* Constants of src/config/config.go                                       *)
(***************************************************************************)
DefaultProfile == <<"d", "e", "f", "a", "u", "l", "t">>
projectID == <<"p", "r", "o", "j", "e", "c", "t", "_", "i", "d">>
orgID == <<"o", "r", "g", "_", "i", "d">>
mongoShellPath == <<"m", "o", "n", "g", "o", "s", "h", "_", "p", "a", "t", "h">>
service == <<"s", "e", "r", "v", "i", "c", "e">>
publicAPIKey == <<"p", "u", "b", "l", "i", "c", "_", "a", "p", "i", "_", "k", "e", "y">>
privateAPIKey == <<"p", "r", "i", "v", "a", "t", "e", "_", "a", "p", "i", "_", "k", "e", "y">>
AccessTokenField == <<"a", "c", "c", "e", "s", "s", "_", "t", "o", "k", "e", "n">>
RefreshTokenField == <<"r", "e", "f", "r", "e", "s", "h", "_", "t", "o", "k", "e", "n">>
ClientIDField == <<"c", "l", "i", "e", "n", "t", "_", "i", "d">>
OpsManagerURLField == <<"o", "p", "s", "_", "m", "a", "n", "a", "g", "e", "r", "_", "u", "r", "l">>
baseURL == <<"b", "a", "s", "e", "_", "u", "r", "l">>
output == <<"o", "u", "t", "p", "u", "t">>
skipUpdateCheck == <<"s", "k", "i", "p", "_", "u", "p", "d", "a", "t", "e", "_", "c", "h", "e", "c", "k">>
TelemetryEnabledProperty == <<"t", "e", "l", "e", "m", "e", "t", "r", "y", "_", "e", "n", "a", "b", "l", "e", "d">>

ContainerizedHostNameEnv == <<"M", "O", "N", "G", "O", "D", "B", "_", "A", "T", "L", "A", "S", "_", "I", "S", "_", "C", "O", "N", "T", "A", "I", "N", "E", "R", "I", "Z", "E", "D">>
GitHubActionsHostNameEnv == <<"G", "I", "T", "H", "U", "B", "_", "A", "C", "T", "I", "O", "N", "S">>
AtlasActionHostNameEnv == <<"A", "T", "L", "A", "S", "_", "G", "I", "T", "H", "U", "B", "_", "A", "C", "T", "I", "O", "N">>
NativeHostName == <<"n", "a", "t", "i", "v", "e">>
DockerContainerHostName == <<"c", "o", "n", "t", "a", "i", "n", "e", "r">>
GitHubActionsHostName == <<"a", "l", "l", "_", "g", "i", "t", "h", "u", "b", "_", "a", "c", "t", "i", "o", "n", "s">>
AtlasActionHostName == <<"a", "t", "l", "a", "s", "c", "l", "i", "_", "g", "i", "t", "h", "u", "b", "_", "a", "c", "t", "i", "o", "n">>

Properties == {projectID, orgID, service, publicAPIKey, privateAPIKey, output,
               OpsManagerURLField, baseURL, mongoShellPath, skipUpdateCheck,
               TelemetryEnabledProperty, AccessTokenField, RefreshTokenField}

(***************************************************************************)
(* Values of type any, and maps                                            *)
(***************************************************************************)
EmptyMap == [x \in {} |-> x]

Nil == [t |-> "nil", s |-> <<>>, b |-> FALSE, n |-> 0, m |-> EmptyMap]
Str(x) == [t |-> "string", s |-> x, b |-> FALSE, n |-> 0, m |-> EmptyMap]
Bool(x) == [t |-> "bool", s |-> <<>>, b |-> x, n |-> 0, m |-> EmptyMap]
Num(x) == [t |-> "int", s |-> <<>>, b |-> FALSE, n |-> x, m |-> EmptyMap]
Table(x) == [t |-> "table", s |-> <<>>, b |-> FALSE, n |-> 0, m |-> x]

Put(m, k, v) == [x \in DOMAIN m \cup {k} |-> IF x = k THEN v ELSE m[x]]
Remove(m, k) == [x \in DOMAIN m \ {k} |-> m[x]]
Lookup(m, k) == IF k \in DOMAIN m THEN m[k] ELSE Nil

(***************************************************************************)
(* The settings store: viper                                               *)
(***************************************************************************)
\* the automatic environment layer: an empty variable counts as unset
EnvLookup(k) == IF autoEnv /\ k \in DOMAIN env /\ env[k] # <<>> THEN Str(env[k]) ELSE Nil

\* viper.Get(k) for a top-level key: override, then environment, then config
ViperGet(k) == IF Lookup(override, k) # Nil THEN override[k]
               ELSE IF EnvLookup(k) # Nil THEN EnvLookup(k)
               ELSE Lookup(config, k)

ViperIsSet(k) == ViperGet(k) # Nil

\* viper.GetStringMap(k): the table found at k, an empty map for anything else
ViperGetStringMap(k) == IF ViperGet(k).t = "table" THEN ViperGet(k).m ELSE EmptyMap

\* viper.Set(k, v) on a top-level key
ViperSet(ov, k, v) == Put(ov, k, v)

MergeTables(a, b) == [x \in DOMAIN a \cup DOMAIN b |-> IF x \in DOMAIN a THEN a[x] ELSE b[x]]

\* the value viper.AllSettings() holds at top-level key k (Nil: k is left out)
SettingAt(k) ==
    LET ov == Lookup(override, k)
        cf == Lookup(config, k)
        tb == IF ov.t = "table"
              THEN (IF cf.t = "table" THEN MergeTables(ov.m, cf.m) ELSE ov.m)
              ELSE cf.m
    IN  IF ov.t = "table" \/ (ov = Nil /\ cf.t = "table")
        THEN (IF tb = EmptyMap THEN Nil ELSE Table(tb))
        ELSE ViperGet(k)

\* viper.AllSettings()
AllSettings ==
    LET ks == {k \in DOMAIN override \cup DOMAIN config : SettingAt(k) # Nil}
    IN  [k \in ks |-> SettingAt(k)]

(***************************************************************************)
(* The document on disk (go-toml tree written to Profile.Filename())       *)
(***************************************************************************)
NoFile == [exists |-> FALSE, doc |-> EmptyMap]
Doc(d) == [exists |-> TRUE, doc |-> d]

\* Profile.Filename(): with an empty configDir the path is relative to the
\* working directory, otherwise it lies in the configuration directory
CanOpen == initErr \/ dirExists

\* viper.ReadInConfig lower-cases the keys of the document it read; a key that
\* is not lower-case replaces the lower-case key it collides with
Insensitivise(d) ==
    LET lows == {ToLower(k) : k \in DOMAIN d}
        cands(l) == IF \E k \in DOMAIN d : k # l /\ ToLower(k) = l
                    THEN {d[k] : k \in {x \in DOMAIN d : x # l /\ ToLower(x) = l}}
                    ELSE {d[l]}
    IN  IF lows = DOMAIN d THEN {d}
        ELSE {f \in [lows -> UNION {cands(l) : l \in lows}] : \A l \in lows : f[l] \in cands(l)}

\* a document holding a key without a value does not parse
Parses(d) == \A k \in DOMAIN d : d[k] # Nil

(***************************************************************************)
(* Profile: accessors                                                      *)
(***************************************************************************)
\* a validation that looks at the first character only
validateName_FirstChar(n) == IF Len(n) > 0 /\ n[1] = "." THEN "ErrProfileNameHasDots" ELSE "nil"

validateName(n) == IF ContainsDot(n) THEN "ErrProfileNameHasDots" ELSE "nil"

\* a Get that returns whatever is set at the top level, the empty string too
Get_NoEmptyCheck(k) == IF ViperIsSet(k)
                       THEN ViperGet(k)
                       ELSE Lookup(ViperGetStringMap(name), k)

Get(k) == IF ViperIsSet(k) /\ ViperGet(k) # Str(<<>>)
          THEN ViperGet(k)
          ELSE Lookup(ViperGetStringMap(name), k)

\* GetString: nil gives "", a string gives itself, any other type fails the
\* type assertion value.(string)
GetString(k) ==
    LET v == Get(k)
    IN  IF v = Nil THEN [panic |-> FALSE, s |-> <<>>]
        ELSE IF v.t = "string" THEN [panic |-> FALSE, s |-> v.s]
        ELSE [panic |-> TRUE, s |-> <<>>]

\* an IsTrue that compares without lower-casing
IsTrue_CaseSensitive(s) == s \in {<<"t">>, <<"t", "r", "u", "e">>, <<"y">>, <<"y", "e", "s">>, <<"1">>}

IsTrue(s) == ToLower(s) \in {<<"t">>, <<"t", "r", "u", "e">>, <<"y">>, <<"y", "e", "s">>, <<"1">>}

GetBoolWithDefault(k, d) ==
    LET v == Get(k)
    IN  CASE v.t = "bool" -> v.b
          [] v.t = "string" -> IsTrue(v.s)
          [] OTHER -> d

GetBool(k) == GetBoolWithDefault(k, FALSE)

PublicAPIKey == GetString(publicAPIKey)
PrivateAPIKey == GetString(privateAPIKey)
AccessToken == GetString(AccessTokenField)

Digits == <<"0", "1", "2", "3", "4", "5", "6", "7", "8", "9">>

\* strconv.Itoa for a natural number
RECURSIVE Itoa(_)
Itoa(n) == IF n < 10 THEN <<Digits[n + 1]>> ELSE Itoa(n \div 10) \o <<Digits[(n % 10) + 1]>>

\* cast.ToString: the empty string for nil and for what has no string form
CastToString(v) ==
    CASE v.t = "string" -> v.s
      [] v.t = "bool" -> (IF v.b THEN <<"t", "r", "u", "e">> ELSE <<"f", "a", "l", "s", "e">>)
      [] v.t = "num" -> Itoa(v.n)
      [] OTHER -> <<>>

\* viper.GetString(k)
ViperGetString(k) == CastToString(ViperGet(k))

\* viper.GetStringMapString(k)
ViperGetStringMapString(k) ==
    LET m == ViperGetStringMap(k) IN [j \in DOMAIN m |-> CastToString(m[j])]

\* Service: the global value whenever the key is set, empty or not
Service ==
    IF ViperIsSet(service) THEN ViperGetString(service)
    ELSE LET settings == ViperGetStringMapString(name)
         IN  IF service \in DOMAIN settings THEN settings[service] ELSE <<>>

\* AuthType: the second operand of && and the access token are read only when
\* the earlier tests did not decide
AuthType ==
    IF PublicAPIKey.panic THEN "panic"
    ELSE IF PublicAPIKey.s # <<>> /\ PrivateAPIKey.panic THEN "panic"
    ELSE IF PublicAPIKey.s # <<>> /\ PrivateAPIKey.s # <<>> THEN "APIKeys"
    ELSE IF AccessToken.panic THEN "panic"
    ELSE IF AccessToken.s # <<>> THEN "OAuth"
    ELSE "NotLoggedIn"

NoTransport == [kind |-> "none", username |-> <<>>, password |-> <<>>, token |-> <<>>, base |-> ""]

\* HttpTransport: both keys are read before the test
HttpTransport(base) ==
    IF PublicAPIKey.panic \/ PrivateAPIKey.panic THEN [NoTransport EXCEPT !.kind = "panic"]
    ELSE IF PublicAPIKey.s # <<>> /\ PrivateAPIKey.s # <<>>
    THEN [kind |-> "digest", username |-> PublicAPIKey.s, password |-> PrivateAPIKey.s,
          token |-> <<>>, base |-> base]
    ELSE IF AccessToken.panic THEN [NoTransport EXCEPT !.kind = "panic"]
    ELSE IF AccessToken.s # <<>>
    THEN [kind |-> "bearer", username |-> <<>>, password |-> <<>>,
          token |-> AccessToken.s, base |-> base]
    ELSE [NoTransport EXCEPT !.kind = "base", !.base = base]

\* List: the top-level keys of AllSettings that are no property (the order of
\* the returned slice is not modelled)
List == {k \in DOMAIN AllSettings : k \notin Properties}

Exists(n) == n \in List

(***************************************************************************)
(* Calls: ret records the operation, its arguments and what it returned    *)
(***************************************************************************)
R0 == [op |-> "none", arg |-> <<>>, val |-> Nil, d |-> FALSE, base |-> "",
       err |-> "nil", res |-> Nil, mech |-> "", tr |-> NoTransport]

\* func (p *Profile) SetName(name string) error
SetName(n) ==
    /\ name' = IF validateName(n) = "nil" THEN ToLower(n) ELSE name
    /\ ret' = [R0 EXCEPT !.op = "SetName", !.arg = n, !.err = validateName(n)]
    /\ UNCHANGED <<initErr, override, config, env, autoEnv, dirExists, file, writes,
                   lastGlobal, used>>

\* func (p *Profile) Set(name string, value any): the map read from the store
\* is updated in place and then stored in the override layer
Set(k, v) ==
    LET settings == Put(ViperGetStringMap(name), k, v)
        aliased == /\ Lookup(override, name) = Nil
                   /\ EnvLookup(name) = Nil
                   /\ Lookup(config, name).t = "table"
    IN  /\ override' = ViperSet(override, name, Table(settings))
        /\ config' = IF aliased THEN Put(config, name, Table(settings)) ELSE config
        /\ writes' = writes + 1
        /\ ret' = [R0 EXCEPT !.op = "Set", !.arg = k, !.val = v]
        /\ UNCHANGED <<name, initErr, env, autoEnv, dirExists, file, lastGlobal, used>>

\* a SetGlobal that does not replace a value already set
SetGlobal_KeepsFirst(k, v) ==
    /\ override' = IF k \in DOMAIN override THEN override ELSE ViperSet(override, k, v)
    /\ lastGlobal' = Put(lastGlobal, k, v)
    /\ writes' = writes + 1
    /\ ret' = [R0 EXCEPT !.op = "SetGlobal", !.arg = k, !.val = v]
    /\ UNCHANGED <<name, initErr, config, env, autoEnv, dirExists, file, used>>

\* func SetGlobal(name string, value any)
SetGlobal(k, v) ==
    /\ override' = ViperSet(override, k, v)
    /\ lastGlobal' = Put(lastGlobal, k, v)
    /\ writes' = writes + 1
    /\ ret' = [R0 EXCEPT !.op = "SetGlobal", !.arg = k, !.val = v]
    /\ UNCHANGED <<name, initErr, config, env, autoEnv, dirExists, file, used>>

\* a Delete that rebuilds the document from the tables alone
DeleteDoc_TablesOnly ==
    [k \in {x \in DOMAIN AllSettings \ {name} : AllSettings[x].t = "table"} |-> AllSettings[k]]

\* the document Delete writes: AllSettings without the profile's table
DeleteDoc == Remove(AllSettings, name)

\* func (p *Profile) Delete() error
Delete ==
    /\ file' = IF CanOpen THEN Doc(DeleteDoc) ELSE file
    /\ ret' = [R0 EXCEPT !.op = "Delete", !.err = IF CanOpen THEN "nil" ELSE "ENOENT"]
    /\ used' = TRUE
    /\ UNCHANGED <<name, initErr, override, config, env, autoEnv, dirExists, writes, lastGlobal>>

\* a Rename that deletes the old table before it copies it
RenameDoc_DeleteFirst(n) ==
    Put(Remove(AllSettings, name), n, Lookup(Remove(AllSettings, name), name))

\* the document Rename writes: t.Set(newProfileName, t.Get(p.Name())), then
\* t.Delete(p.Name())
RenameDoc(n) == Remove(Put(AllSettings, n, Lookup(AllSettings, name)), name)

\* func (p *Profile) Rename(newProfileName string) error
Rename(n) ==
    LET e == IF validateName(n) # "nil" THEN validateName(n)
             ELSE IF CanOpen THEN "nil" ELSE "ENOENT"
    IN  /\ file' = IF e = "nil" THEN Doc(RenameDoc(n)) ELSE file
        /\ ret' = [R0 EXCEPT !.op = "Rename", !.arg = n, !.err = e]
        /\ used' = TRUE
        /\ UNCHANGED <<name, initErr, override, config, env, autoEnv, dirExists, writes, lastGlobal>>

\* func (p *Profile) Save() error: with an empty configDir MkdirAll("") fails
Save ==
    /\ dirExists' = IF initErr THEN dirExists ELSE TRUE
    /\ file' = IF initErr THEN file ELSE Doc(AllSettings)
    /\ ret' = [R0 EXCEPT !.op = "Save", !.err = IF initErr THEN "ENOENT" ELSE "nil"]
    /\ used' = TRUE
    /\ UNCHANGED <<name, initErr, override, config, env, autoEnv, writes, lastGlobal>>

\* func (p *Profile) LoadAtlasCLIConfig(readEnvironmentVars bool) error
LoadAtlasCLIConfig(readEnvironmentVars) ==
    LET found == dirExists /\ file.exists
        e == IF initErr THEN "initErr"
             ELSE IF found /\ ~Parses(file.doc) THEN "ConfigParseError"
             ELSE "nil"
    IN  /\ used' = TRUE
        /\ ret' = [R0 EXCEPT !.op = "Load", !.d = readEnvironmentVars, !.err = e]
        /\ autoEnv' = IF initErr THEN autoEnv ELSE (autoEnv \/ readEnvironmentVars)
        /\ IF ~initErr /\ found /\ Parses(file.doc)
           THEN config' \in Insensitivise(file.doc)
           ELSE config' = config
        /\ UNCHANGED <<name, initErr, override, env, dirExists, file, writes, lastGlobal>>

Read(r) == ret' = r /\ UNCHANGED <<name, initErr, override, config, env, autoEnv,
                                    dirExists, file, writes, lastGlobal, used>>

CallGet(k) == Read([R0 EXCEPT !.op = "Get", !.arg = k, !.res = Get(k)])

CallGetString(k) ==
    Read([R0 EXCEPT !.op = "GetString", !.arg = k, !.res = Str(GetString(k).s),
                    !.err = IF GetString(k).panic THEN "panic" ELSE "nil"])

CallGetBoolWithDefault(k, d) ==
    Read([R0 EXCEPT !.op = "GetBoolWithDefault", !.arg = k, !.d = d,
                    !.res = Bool(GetBoolWithDefault(k, d))])

CallService == Read([R0 EXCEPT !.op = "Service", !.res = Str(Service)])

CallAuthType == Read([R0 EXCEPT !.op = "AuthType", !.mech = AuthType])

CallHttpTransport(base) ==
    Read([R0 EXCEPT !.op = "HttpTransport", !.base = base, !.tr = HttpTransport(base)])

(***************************************************************************)
(* Inputs                                                                  *)
(***************************************************************************)
Chars == {"a", "A", "."}

\* every name of 1..MaxNameLen characters
NameInputs == {n \in SeqsUpTo(Chars, MaxNameLen) : Len(n) >= 1}

\* the names the lifecycle specification switches between
ProfileInputs == {DefaultProfile, <<"a">>, <<"A">>, <<".">>}

Keys == {output}
Vals == {Str(<<"a">>), Str(<<"b">>)}

\* the state after newProfile(): the default profile, an empty store, and
\* whatever the machine holds: the configuration directory may not exist yet
Init ==
    /\ name = DefaultProfile
    /\ initErr \in BOOLEAN
    /\ override = EmptyMap
    /\ config = EmptyMap
    /\ env = EmptyMap
    /\ autoEnv = FALSE
    /\ dirExists \in BOOLEAN
    /\ file = NoFile
    /\ writes = 0
    /\ lastGlobal = EmptyMap
    /\ used = FALSE
    /\ ret = R0

Next ==
    \/ \E n \in ProfileInputs : SetName(n)
    \/ \E n \in ProfileInputs : Rename(n)
    \/ \E k \in Keys, v \in Vals : writes < MaxWrites /\ Set(k, v)
    \/ \E k \in Keys, v \in Vals : writes < MaxWrites /\ SetGlobal(k, v)
    \/ Save
    \/ Delete
    \/ \E b \in BOOLEAN : LoadAtlasCLIConfig(b)

Spec == Init /\ [][Next]_vars

\* name validation alone: every name of up to MaxNameLen characters
NextName ==
    \/ \E n \in NameInputs : SetName(n)
    \/ \E n \in NameInputs : Rename(n)
    \/ Save

SpecName == Init /\ [][NextName]_vars

\* settings resolution: a document left by an earlier run, environment
\* variables, values of every type
GetKeys == {output, orgID}
GetVals == {Str(<<>>), Str(<<"a">>), Bool(TRUE)}
GetNames == {DefaultProfile, <<"A">>}
EnvInputs == {EmptyMap, [k \in {output} |-> <<"e">>]}

InitialDocs ==
    {NoFile,
     Doc([k \in {DefaultProfile} |-> Table([j \in {orgID} |-> Str(<<"b">>)])]),
     Doc([k \in {output, orgID, <<"a">>} |->
             IF k = output THEN Str(<<>>)
             ELSE IF k = orgID THEN Num(1)
             ELSE Table([j \in {output} |-> Str(<<"b">>)])])}

InitGet ==
    /\ name = DefaultProfile
    /\ initErr = FALSE
    /\ override = EmptyMap
    /\ config = EmptyMap
    /\ env \in EnvInputs
    /\ autoEnv = FALSE
    /\ file \in InitialDocs
    /\ dirExists = file.exists
    /\ writes = 0
    /\ lastGlobal = EmptyMap
    /\ used = FALSE
    /\ ret = R0

NextGet ==
    \/ \E n \in GetNames : SetName(n)
    \/ \E k \in GetKeys, v \in GetVals : writes < MaxWrites /\ Set(k, v)
    \/ \E k \in GetKeys, v \in GetVals : writes < MaxWrites /\ SetGlobal(k, v)
    \/ \E b \in BOOLEAN : LoadAtlasCLIConfig(b)
    \/ \E k \in GetKeys : CallGet(k)
    \/ \E k \in GetKeys : CallGetString(k)

SpecGet == InitGet /\ [][NextGet]_vars

\* credentials: the three credential keys at profile and at global scope
CredKeys == {publicAPIKey, privateAPIKey, AccessTokenField}
CredVals == {Str(<<>>), Str(<<"x">>), Bool(TRUE)}
Bases == {"rt1", "rt2"}

NextAuth ==
    \/ \E k \in CredKeys, v \in CredVals : writes < MaxCredWrites /\ Set(k, v)
    \/ \E k \in CredKeys, v \in CredVals : writes < MaxCredWrites /\ SetGlobal(k, v)
    \/ CallAuthType
    \/ \E b \in Bases : CallHttpTransport(b)

SpecAuth == Init /\ [][NextAuth]_vars

\* boolean settings: strings in several spellings, booleans, a number
BoolStrings == {<<>>, <<"t">>, <<"T">>, <<"t", "r", "u", "e">>, <<"T", "R", "U", "E">>,
                <<"T", "r", "u", "e">>, <<"y">>, <<"Y", "E", "S">>, <<"y", "e", "s">>, <<"1">>,
                <<"n", "o">>, <<"0">>, <<"t", "r", "u">>, <<"y", "e", "s", "1">>}
BoolVals == {Str(x) : x \in BoolStrings} \cup {Bool(TRUE), Bool(FALSE), Num(1)}

NextBool ==
    \/ \E v \in BoolVals : writes < MaxWrites /\ Set(skipUpdateCheck, v)
    \/ \E v \in BoolVals : writes < MaxWrites /\ SetGlobal(skipUpdateCheck, v)
    \/ \E d \in BOOLEAN : CallGetBoolWithDefault(skipUpdateCheck, d)

SpecBool == Init /\ [][NextBool]_vars

\* the service setting: in a document left by an earlier run, in the
\* environment, written globally and for the profile
ServiceVals == {Str(<<>>), Str(<<"a">>)}
ServiceEnvs == {EmptyMap, [k \in {service} |-> <<"e">>]}

ServiceDocs ==
    {NoFile,
     Doc([k \in {DefaultProfile} |-> Table([j \in {service} |-> Str(<<"b">>)])]),
     Doc([k \in {service, <<"a">>} |->
             IF k = service THEN Str(<<>>)
             ELSE Table([j \in {service} |-> Str(<<"b">>)])])}

InitService ==
    /\ name = DefaultProfile
    /\ initErr = FALSE
    /\ override = EmptyMap
    /\ config = EmptyMap
    /\ env \in ServiceEnvs
    /\ autoEnv = FALSE
    /\ file \in ServiceDocs
    /\ dirExists = file.exists
    /\ writes = 0
    /\ lastGlobal = EmptyMap
    /\ used = FALSE
    /\ ret = R0

NextService ==
    \/ \E n \in GetNames : SetName(n)
    \/ \E v \in ServiceVals : writes < MaxWrites /\ Set(service, v)
    \/ \E v \in ServiceVals : writes < MaxWrites /\ SetGlobal(service, v)
    \/ \E b \in BOOLEAN : LoadAtlasCLIConfig(b)
    \/ CallService
    \/ CallGetString(service)

SpecService == InitService /\ [][NextService]_vars

(***************************************************************************)
(* Hostname resolution (computed once, when the package is initialised)    *)
(***************************************************************************)
\* os.Getenv: the empty string for a variable that is not set
Getenv(e) == IF e \in DOMAIN env THEN env[e] ELSE <<>>

envIsTrue(e) == IsTrue(Getenv(e))

\* strings.Count(s, c) for a one-character c
Count(s, c) == Cardinality({i \in DOMAIN s : s[i] = c})

\* an append that never writes the separator
appendToHostName_NoSeparator(builder, configVal) == builder \o configVal

appendToHostName(builder, configVal) ==
    IF Len(builder) > 0 THEN builder \o <<"|">> \o configVal ELSE builder \o configVal

\* a test that takes any name with a placeholder for the default
isDefaultHostName_AnyPlaceholder(hostname) == Count(hostname, "-") >= 1

isDefaultHostName(hostname) == Count(hostname, "-") = Count(hostname, "|") + 1

envVars == <<[envName |-> AtlasActionHostNameEnv, hostName |-> AtlasActionHostName],
             [envName |-> GitHubActionsHostNameEnv, hostName |-> GitHubActionsHostName],
             [envName |-> ContainerizedHostNameEnv, hostName |-> DockerContainerHostName]>>

\* the builder after the first i entries of envVars
RECURSIVE HostBuilder(_)
HostBuilder(i) ==
    IF i = 0 THEN <<>>
    ELSE appendToHostName(HostBuilder(i - 1),
                          IF envIsTrue(envVars[i].envName) THEN envVars[i].hostName ELSE <<"-">>)

getConfigHostnameFromEnvs ==
    LET configHostName == HostBuilder(Len(envVars))
    IN  IF isDefaultHostName(configHostName) THEN NativeHostName ELSE configHostName

CallGetConfigHostnameFromEnvs ==
    Read([R0 EXCEPT !.op = "getConfigHostnameFromEnvs", !.res = Str(getConfigHostnameFromEnvs)])

\* the three flags, each unset or set to one of these strings
FlagNames == {AtlasActionHostNameEnv, GitHubActionsHostNameEnv, ContainerizedHostNameEnv}
FlagVals == {<<>>, <<"1">>, <<"T", "R", "U", "E">>, <<"y", "e", "s">>, <<"n", "o">>, <<"0">>}

InitHost ==
    /\ name = DefaultProfile
    /\ initErr = FALSE
    /\ override = EmptyMap
    /\ config = EmptyMap
    /\ env \in [FlagNames -> FlagVals]
    /\ autoEnv = FALSE
    /\ dirExists = FALSE
    /\ file = NoFile
    /\ writes = 0
    /\ lastGlobal = EmptyMap
    /\ used = FALSE
    /\ ret = R0

NextHost == CallGetConfigHostnameFromEnvs

SpecHost == InitHost /\ [][NextHost]_vars

(***************************************************************************)
(* Properties                                                              *)
(***************************************************************************)
HasDot(s) == "." \in {s[i] : i \in DOMAIN s}
IsLowerCase(s) == \A i \in DOMAIN s : \A j \in DOMAIN UpperCase : s[i] # UpperCase[j]
LowerCased(s, l) == /\ Len(l) = Len(s)
                    /\ \A i \in DOMAIN s : l[i] = (IF s[i] = "A" THEN "a" ELSE s[i])

\* viper.Get of the nested path q.j: the override layer, then the config layer
StoredAt(q, j) ==
    IF Lookup(override, q).t = "table" /\ j \in DOMAIN override[q].m THEN override[q].m[j]
    ELSE IF Lookup(config, q).t = "table" /\ j \in DOMAIN config[q].m THEN config[q].m[j]
    ELSE Nil

\* the profiles that hold a setting in the store
StoredProfiles ==
    {q \in DOMAIN override \cup DOMAIN config : \E j \in Keys : StoredAt(q, j) # Nil}

\* C1 as stated: SetName(n) and Rename(n) fail with ErrProfileNameHasDots for
\* every n containing '.', and succeed for every n without '.', SetName
\* leaving the lower-cased n as the profile's name.
C1_Original ==
    ret.op \in {"SetName", "Rename"} =>
        IF HasDot(ret.arg)
        THEN ret.err = "ErrProfileNameHasDots"
        ELSE ret.err = "nil" /\ (ret.op = "SetName" => LowerCased(ret.arg, name))

\* C1 amended: for every n containing '.', SetName(n) and Rename(n) fail with
\* ErrProfileNameHasDots; for every n without '.', SetName(n) succeeds and
\* leaves the lower-cased n as the name, and Rename(n) never fails with
\* ErrProfileNameHasDots: it succeeds exactly when the document can be opened
\* for writing and returns the open error otherwise.
C1_NameValidation ==
    ret.op \in {"SetName", "Rename"} =>
        IF HasDot(ret.arg)
        THEN ret.err = "ErrProfileNameHasDots"
        ELSE /\ ret.op = "SetName" => ret.err = "nil" /\ LowerCased(ret.arg, name)
             /\ ret.op = "Rename" => /\ ret.err # "ErrProfileNameHasDots"
                                     /\ ret.err = "nil" <=> (initErr \/ dirExists)

C1_Witness ==
    /\ ret.op = "Rename" /\ ret.arg = <<"a", "A">> /\ ret.err = "nil"
    /\ name = <<"a", "a">>

\* C4 as stated: after a successful Rename(p2) of profile p1 (p2 # p1) every
\* setting of p1 is stored under p2 with the same value, List() does not
\* contain p1 and Exists(p1) is false.
C4_Original ==
    (ret.op = "Rename" /\ ret.err = "nil" /\ ret.arg # name) =>
        /\ \A j \in Keys : StoredAt(name, j) # Nil =>
               /\ Lookup(file.doc, ret.arg).t = "table"
               /\ Lookup(file.doc[ret.arg].m, j) = StoredAt(name, j)
        /\ name \notin List
        /\ ~Exists(name)

\* C4 amended: after a successful Rename(p2) of profile p1 (p2 # p1) the
\* document written holds every setting formerly stored under p1 under p2
\* with the same value and holds no table p1; List() and Exists(), which read
\* the in-memory store that Rename leaves alone, answer as before the call.
C4_RenameMoves ==
    [][(ret'.op = "Rename" /\ ret'.err = "nil" /\ ret'.arg # name) =>
          /\ file'.exists
          /\ name \notin DOMAIN file'.doc
          /\ \A j \in Keys : StoredAt(name, j) # Nil =>
                 /\ Lookup(file'.doc, ret'.arg).t = "table"
                 /\ Lookup(file'.doc[ret'.arg].m, j) = StoredAt(name, j)
          /\ List' = List
          /\ name' = name]_vars

C4_Witness ==
    /\ ret.op = "Rename" /\ ret.err = "nil" /\ ret.arg = <<"a">>
    /\ name = DefaultProfile
    /\ StoredAt(name, output) = Str(<<"b">>)
    /\ Lookup(file.doc, <<"a">>) = Table([k \in {output} |-> Str(<<"b">>)])
    /\ DefaultProfile \notin DOMAIN file.doc
    /\ Exists(DefaultProfile)

\* C5: a successful Delete() on profile p writes a document without p's table
\* in which every global setting and every other profile's table has exactly
\* the keys and values the store held before the call.
C5_DeleteFrame ==
    [][(ret'.op = "Delete" /\ ret'.err = "nil") =>
          /\ file'.exists
          /\ name \notin DOMAIN file'.doc
          /\ \A k \in Keys :
                 Lookup(file'.doc, k) = (IF ViperGet(k).t = "table" THEN Nil ELSE ViperGet(k))
          /\ \A q \in StoredProfiles \ {name} :
                 /\ Lookup(file'.doc, q).t = "table"
                 /\ \A j \in Keys : Lookup(file'.doc[q].m, j) = StoredAt(q, j)
          /\ DOMAIN file'.doc \subseteq (Keys \cup StoredProfiles) \ {name}]_vars

C5_Witness ==
    /\ ret.op = "Delete" /\ ret.err = "nil"
    /\ name = <<"a">>
    /\ StoredAt(<<"a">>, output) = Str(<<"a">>)
    /\ file.doc = [k \in {output, DefaultProfile} |->
                      IF k = output THEN Str(<<"b">>)
                      ELSE Table([j \in {output} |-> Str(<<"a">>)])]

\* C6 as stated: in every reachable state the profile's name and every profile
\* section name of the settings document (in memory and as written) are
\* lower-case, contain no '.', and are pairwise distinct.
SectionNames(d) == {k \in DOMAIN d \ Properties : d[k].t = "table"}

C6_Original ==
    LET names == {name} \cup SectionNames(AllSettings) \cup SectionNames(file.doc)
    IN  /\ \A n \in names : IsLowerCase(n) /\ ~HasDot(n)
        /\ \A n1, n2 \in SectionNames(file.doc) : ToLower(n1) = ToLower(n2) => n1 = n2

\* C9 as stated: with a construction error recorded, the first of
\* LoadAtlasCLIConfig, Save, Delete, Rename invoked returns that error.
C9_Original == [][(initErr /\ ~used /\ used') => ret'.err = "initErr"]_vars

\* the top-level value of k: set by SetGlobal, else taken from the
\* environment once that is bound, else read from the document
GlobalValue(k) ==
    IF k \in DOMAIN override THEN override[k]
    ELSE IF autoEnv /\ k \in DOMAIN env /\ env[k] # <<>> THEN Str(env[k])
    ELSE IF k \in DOMAIN config THEN config[k]
    ELSE Nil

\* the profile's own table: the one Set wrote for p, else the one read from
\* the document
ProfileTable(p) ==
    IF p \in DOMAIN override THEN override[p].m
    ELSE IF p \in DOMAIN config /\ config[p].t = "table" THEN config[p].m
    ELSE EmptyMap

ProfileValue(p, k) == IF k \in DOMAIN ProfileTable(p) THEN ProfileTable(p)[k] ELSE Nil

\* C2: Get(k) returns the global value of k when k is set globally and that
\* value is not the empty string, otherwise the value under k in the
\* profile's own table, otherwise nil.
C2_GetPrecedence ==
    ret.op = "Get" =>
        ret.res = (IF GlobalValue(ret.arg) # Nil /\ GlobalValue(ret.arg) # Str(<<>>)
                   THEN GlobalValue(ret.arg)
                   ELSE ProfileValue(name, ret.arg))

C2_Witness ==
    /\ ret.op = "Get" /\ ret.arg = output
    /\ GlobalValue(output) = Str(<<>>)
    /\ name = <<"a">>
    /\ ret.res = Str(<<"b">>)

\* C3 as stated: whatever value b the most recent SetGlobal(k, b) stored,
\* Get(k) returns b on every profile, whatever Set(k, a) stored there.
C3_Original ==
    (ret.op = "Get" /\ ret.arg \in DOMAIN lastGlobal) => ret.res = lastGlobal[ret.arg]

\* C3 amended: when the most recent SetGlobal(k, b) stored a b other than the
\* empty string, Get(k) returns b on every profile, whatever Set(k, a) stored
\* there; when b is the empty string Get(k) returns the profile's own value.
C3_GlobalWins ==
    (ret.op = "Get" /\ ret.arg \in DOMAIN lastGlobal) =>
        ret.res = (IF lastGlobal[ret.arg] # Str(<<>>)
                   THEN lastGlobal[ret.arg]
                   ELSE ProfileValue(name, ret.arg))

C3_Witness ==
    /\ ret.op = "Get" /\ ret.arg = output
    /\ lastGlobal = [k \in {output} |-> Bool(TRUE)]
    /\ name = <<"a">>
    /\ ProfileValue(<<"a">>, output) = Str(<<"a">>)
    /\ ret.res = Bool(TRUE)

\* C10 as stated: GetString(k), and the string getters built on it, return a
\* value for every type of value stored under k.
C10_Original == ret.op = "GetString" => ret.err # "panic"

\* C7 as stated: in every settings state AuthType() and HttpTransport(base)
\* select API keys when both keys are non-empty, otherwise OAuth when the
\* access token is non-empty, otherwise none.
CredString(k) == IF Get(k).t = "string" THEN Get(k).s ELSE <<>>
CredSet(k) == Get(k) # Nil /\ Get(k) # Str(<<>>)
CredChoice == IF CredSet(publicAPIKey) /\ CredSet(privateAPIKey) THEN "APIKeys"
              ELSE IF CredSet(AccessTokenField) THEN "OAuth"
              ELSE "NotLoggedIn"

C7_Original ==
    /\ ret.op = "AuthType" => ret.mech = CredChoice
    /\ ret.op = "HttpTransport" =>
           ret.tr = [kind |-> CASE CredChoice = "APIKeys" -> "digest"
                                [] CredChoice = "OAuth" -> "bearer"
                                [] OTHER -> "base",
                     username |-> IF CredChoice = "APIKeys" THEN CredString(publicAPIKey) ELSE <<>>,
                     password |-> IF CredChoice = "APIKeys" THEN CredString(privateAPIKey) ELSE <<>>,
                     token |-> IF CredChoice = "OAuth" THEN CredString(AccessTokenField) ELSE <<>>,
                     base |-> ret.base]

\* C7 on the states in which every credential setting is a string or unset
C7_OnStrings ==
    (\A k \in CredKeys : Get(k) = Nil \/ Get(k).t = "string") => C7_Original

\* the strings of BoolStrings that equal t, true, y, yes or 1 up to case
TrueStrings == {<<"t">>, <<"T">>, <<"t", "r", "u", "e">>, <<"T", "R", "U", "E">>,
                <<"T", "r", "u", "e">>, <<"y">>, <<"Y", "E", "S">>, <<"y", "e", "s">>, <<"1">>}

\* C8 as stated: GetBoolWithDefault(k, d) is true for a string equal up to case
\* to t, true, y, yes or 1, the value itself for a boolean, and d for any other
\* string or when k is unset.
C8_Original ==
    ret.op = "GetBoolWithDefault" =>
        ret.res = Bool(LET v == Get(ret.arg)
                       IN  IF v.t = "string" /\ v.s \in TrueStrings THEN TRUE
                           ELSE IF v.t = "bool" THEN v.b
                           ELSE ret.d)

\* C8 amended: GetBoolWithDefault(k, d) is true for a string equal up to case
\* to t, true, y, yes or 1 and false for any other string, the value itself for
\* a boolean, and d when k is unset or holds a value of another type.
C8_GetBool ==
    ret.op = "GetBoolWithDefault" =>
        ret.res = Bool(LET v == Get(ret.arg)
                       IN  IF v.t = "string" THEN v.s \in TrueStrings
                           ELSE IF v.t = "bool" THEN v.b
                           ELSE ret.d)

C8_Witness ==
    /\ ret.op = "GetBoolWithDefault" /\ ret.d = TRUE
    /\ Get(skipUpdateCheck) = Str(<<"n", "o">>)
    /\ ret.res = Bool(FALSE)

\* C11: the resolved hostname is "native" exactly when none of the three flags
\* is true; otherwise it is the three slots joined by "|" in the order
\* ATLAS_GITHUB_ACTION, GITHUB_ACTIONS, MONGODB_ATLAS_IS_CONTAINERIZED, each
\* slot its label when the flag is true and "-" when not.
FlagTrue(e) == e \in DOMAIN env /\ env[e] \in TrueStrings
Slot(e, label) == IF FlagTrue(e) THEN label ELSE <<"-">>

C11_Hostname ==
    ret.op = "getConfigHostnameFromEnvs" =>
        /\ ret.res = Str(NativeHostName) <=> ~(\E e \in FlagNames : FlagTrue(e))
        /\ (\E e \in FlagNames : FlagTrue(e)) =>
               ret.res = Str(Slot(AtlasActionHostNameEnv, AtlasActionHostName) \o <<"|">>
                             \o Slot(GitHubActionsHostNameEnv, GitHubActionsHostName) \o <<"|">>
                             \o Slot(ContainerizedHostNameEnv, DockerContainerHostName))

C11_Witness ==
    /\ ret.op = "getConfigHostnameFromEnvs"
    /\ env[ContainerizedHostNameEnv] = <<"y", "e", "s">>
    /\ env[AtlasActionHostNameEnv] = <<"n", "o">>
    /\ env[GitHubActionsHostNameEnv] = <<>>
    /\ ret.res = Str(<<"-", "|", "-", "|">> \o DockerContainerHostName)

\* C12: in every state whose stored values are strings, Service() returns
\* what GetString("service") returns, also when the global "service" is the
\* empty string and the profile's table holds a non-empty service.
IsStringOrNil(v) == v.t \in {"string", "nil"}
StoredStrings(layer) ==
    \A k \in DOMAIN layer :
        \/ IsStringOrNil(layer[k])
        \/ layer[k].t = "table" /\ \A j \in DOMAIN layer[k].m : IsStringOrNil(layer[k].m[j])

C12_Original ==
    (ret.op = "Service" /\ StoredStrings(override) /\ StoredStrings(config)) =>
        /\ ~GetString(service).panic
        /\ ret.res = Str(GetString(service).s)

\* C13: Rename(n) on a profile whose name is already n (n without '.'), where
\* the configuration file can be opened, succeeds and the document written
\* still holds table n with exactly the settings the profile held before the
\* call.
C13_Original ==
    (/\ ret.op = "Rename" /\ ret.arg = name /\ ~HasDot(ret.arg)
     /\ CanOpen
     /\ Lookup(AllSettings, name).t = "table") =>
        /\ ret.err = "nil"
        /\ file.exists
        /\ Lookup(file.doc, name) = Lookup(AllSettings, name)

====
